---- MODULE Spec2Model ----
(***************************************************************************)
(* A model of the Vultr cloud driver (salt/cloud/clouds/vultrpy.py):      *)
(* the process-wide catalog cache DETAILS, identifier resolution          *)
(* (_lookup_vultrid), and the create() orchestration with its validation, *)
(* submission and readiness polling.                                      *)
(*                                                                         *)
(* Python values are written as strings.  None and False are the strings  *)
(* "None" and "False"; a comma-separated string is the sequence of its    *)
(* segments (the result of str.split(",")).                               *)
(***************************************************************************)
EXTENDS Integers, Sequences, FiniteSets, TLC

VARIABLES
    catalog,   \* provider side: the listing each catalog endpoint returns
    DETAILS,   \* the module global DETAILS (vultrpy.py line 151)
    pc,        \* per invocation: position inside create()
    fld,       \* per invocation: which required field is being resolved (1..3)
    step,      \* per invocation: position inside _cache_provider_details
    fetched,   \* per invocation: locals locations/images/sizes of the refresh
    cfg,       \* per invocation: the configuration values create() has read
    which_key, \* per invocation: the argument of the running _lookup_vultrid
    ids,       \* per invocation: osid / vpsplanid / dcid
    seen,      \* per invocation: what the validator's listing calls returned
    trace,     \* per invocation: history of network calls, events, bootstrap
    probed,    \* per invocation: history, stages whose probe has run
    done,      \* per invocation: history, stages completed, in order
    vm,        \* per invocation: fields create() adds to vm_
    clock,     \* per invocation: elapsed time inside the current wait_for_fun
    resp,      \* per invocation: outcome of the server/create call
    errlog,    \* per invocation: the message of create()'s log.error, if any
    ret,       \* per invocation: what create() returned
    kwargs,    \* per invocation: the payload of the server/create call
    polled,    \* per invocation: history of what the probes have met
    result,    \* per invocation: the dict ret of lines 881-883
    nodes,     \* provider side: the instances of the account, by SUBID
    call       \* the running destroy() call

vars == <<catalog, DETAILS, pc, fld, step, fetched, cfg, which_key, ids, seen,
          trace, probed, done, vm, clock, resp, errlog, ret, kwargs,
          polled, result, nodes, call>>

\* the state of create() and of the catalog cache
createVars == <<catalog, DETAILS, pc, fld, step, fetched, cfg, which_key, ids,
                seen, trace, probed, done, vm, clock, resp, errlog, ret,
                kwargs, polled, result>>

\* the state destroy() works on
nodeVars == <<nodes, call>>

-----------------------------------------------------------------------------
(* Bounds *)

MaxEntries == 2      \* longest catalog listing of the rich category
MaxOptions == 2      \* optional settings a profile gives besides the password
WaitTimeout == 3     \* wait_for_fun_timeout, in seconds

-----------------------------------------------------------------------------
(* Python values *)

None == "None"
False == "False"
True == "True"

Inv == {1, 2}

\* bool(x) for the values of the model: None, False and "" are falsy.
Truthy(x) == x \notin {None, False, ""}

EmptyMap == [k \in {} |-> k]

\* d[k] = v on a dict
Put(d, k, v) == [x \in (DOMAIN d) \cup {k} |-> IF x = k THEN v ELSE d[x]]

Last(s) == s[Len(s)]

-----------------------------------------------------------------------------
(* The provider's catalogs *)

Categories == {"avail_locations", "avail_sizes", "avail_images"}

\* The endpoint avail_locations / avail_sizes / avail_images queries.
ListPath(c) ==
    CASE c = "avail_locations" -> "regions/list"
      [] c = "avail_sizes"     -> "plans/list"
      [] c = "avail_images"    -> "os/list"

CatalogPaths == {ListPath(c) : c \in Categories}

EntryIds == {"1", "2", "3"}
EntryNames == {"A", "1", "2"}
Entries == [id : EntryIds, name : EntryNames]

\* A listing is a JSON object keyed by provider ID: keys are distinct.  Display
\* names are distinct within a category.
RECURSIVE SeqsUpTo(_, _)
SeqsUpTo(S, n) ==
    IF n = 0 THEN {<<>>}
    ELSE LET shorter == SeqsUpTo(S, n - 1)
         IN  shorter \cup {Append(s, e) : s \in shorter, e \in S}

WellFormed(l) ==
    \A a, b \in 1..Len(l) : a # b => (l[a].id # l[b].id /\ l[a].name # l[b].name)

Listings == {l \in SeqsUpTo(Entries, MaxEntries) : WellFormed(l)}

PlainListing == << [id |-> "1", name |-> "A"] >>

\* the plan listing gives its one entry another ID
PlainSizes == << [id |-> "2", name |-> "A"] >>

PlainCatalog ==
    [c \in Categories |-> IF c = "avail_sizes" THEN PlainSizes ELSE PlainListing]

\* One category holds any well-formed listing, the others the plain one.
RichCatalogs ==
    {[c \in Categories |-> IF c = r THEN l ELSE PlainCatalog[c]] :
        r \in Categories, l \in Listings}

\* The keys a profile may give for image, size or location.
Keys == {"1", "2", "A", "X"}

-----------------------------------------------------------------------------
(* _cache_provider_details *)

ResetOrder == <<"avail_locations", "avail_sizes", "avail_images">>
QueryOrder == <<"avail_locations", "avail_images", "avail_sizes">>
FillOrder == <<"avail_locations", "avail_images", "avail_sizes">>

\* Variant: entries are indexed by ID only.
RECURSIVE FillCategory_idOnly(_, _)
FillCategory_idOnly(d, listing) ==
    IF listing = <<>> THEN d
    ELSE LET e == Head(listing)
         IN  FillCategory_idOnly(Put(d, e.id, e), Tail(listing))

\* for key, e in listing.items(): d[e["name"]] = e; d[key] = e
RECURSIVE FillCategory(_, _)
FillCategory(d, listing) ==
    IF listing = <<>> THEN d
    ELSE LET e == Head(listing)
         IN  FillCategory(Put(Put(d, e.name, e), e.id, e), Tail(listing))

\* try: return DETAILS[availkey][which_key][keyname]  except KeyError: False
LookupIn(D, availkey, key) ==
    IF availkey \in DOMAIN D /\ key \in DOMAIN D[availkey]
    THEN D[availkey][key].id
    ELSE False

-----------------------------------------------------------------------------
(* Configuration values and provider responses create() may meet *)

\* A profile gives image, size and location as a string or as an integer
\* (module docstring, lines 24-31); v is the text str() returns for it.
PyStr(s) == [t |-> "str", v |-> s]
PyInt(s) == [t |-> "int", v |-> s]
PyNone == [t |-> "NoneType", v |-> "None"]

ProfileKeys == {PyStr(k) : k \in Keys} \cup {PyInt("1")}

\* Variant: the key is used as given; an integer is no key of an index whose
\* keys are strings.
Str_asGiven(x) == IF x.t = "int" THEN "<int>" ELSE x.v

\* str(which_key)
Str(x) == x.v

ScriptVals == {None, "", "s1", "sX"}
ScriptListings == {{}, {"s1"}}

IsoVals == {None, "i1", "i2", "iX"}
AcctIsoListings == {{}, {"i1"}}
PublicIsoListings == {{}, {"i2"}}

IpxeVals == {False, "https://some.example.com/script.ipxe", "not a url"}
\* validators.url(s) is truthy exactly for these
ValidUrls == {"https://some.example.com/script.ipxe"}

FirewallVals == {None, "f1", "fX"}
FirewallListings == {{}, {"f1"}}

SshVals == {None, "", "k1,k2", "k1,kX", "kX,k1", "k1,"}
KeyListings == {{"k1", "k2"}}

\* ssh_key_ids.split(",")
Split(s) ==
    CASE s = ""      -> <<"">>
      [] s = "kX,k1" -> <<"kX", "k1">>
      [] s = "k1,k2" -> <<"k1", "k2">>
      [] s = "k1,kX" -> <<"k1", "kX">>
      [] s = "k1,"   -> <<"k1", "">>

PrivVals == {None, True, False, "yes"}
\* isinstance(x, bool)
IsBool(x) == x \in {True, False}

PasswordVals == {False, "CorrectHorseBatteryStaple"}

UsernameVals == {False, "root"}

DefaultStatus == 200
FailStatus == 300
StatusCodes == {FailStatus - 1, FailStatus, 412}

\* What _query("server/create") does: raise, or return a body with or without
\* a "status" field.
NoResponse == [sent |-> FALSE, raised |-> FALSE, has_status |-> FALSE, status |-> 0]
Responses ==
    {[sent |-> TRUE, raised |-> TRUE, has_status |-> FALSE, status |-> 0],
     [sent |-> TRUE, raised |-> FALSE, has_status |-> FALSE, status |-> 0]}
    \cup {[sent |-> TRUE, raised |-> FALSE, has_status |-> TRUE, status |-> s] :
             s \in StatusCodes}

\* A field the instance record does not carry.
Absent == "<absent>"

\* What show_instance(name) returns during polling: the node's record, or {}
\* (every field absent) while the name is not listed.
NotListed ==
    [main_ip |-> Absent, default_password |-> Absent, status |-> Absent,
     server_state |-> Absent]

NodeData ==
    {NotListed} \cup
    [main_ip : {"0.0.0.0", "45.76.1.2"},
     default_password : {Absent, "", "not supported", "xYz123"},
     status : {"pending", "active"},
     server_state : {"none", "ok"}]

\* What show_instance(name) returns once the instance has an address and its
\* server state is ok, or {} when the name is not listed any more.
FinalData ==
    {data \in NodeData :
        data = NotListed \/ (data.main_ip = "45.76.1.2" /\ data.server_state = "ok")}

\* data.get(field, default)
Get(data, field, default) == IF data[field] = Absent THEN default ELSE data[field]

\* s.startswith("0")
StartsWithZero(s) == s \in {"0", "0.0.0.0"}

KeyError == "raise:KeyError"
TimeoutError == "raise:TimeoutError"
ConfigError == "raise:SaltCloudConfigError"
\* what the event collaborator raises when it cannot publish
PublishError == "raise:PublishError"

\* what a listing call that fails raises
QueryError == "raise:QueryError"

\* vm_["name"]
NameOf(i) == IF i = 1 THEN "host1" ELSE "host2"

\* The userdata setting: not given, the path of a file, or a literal.
UserdataFile == "/srv/scripts/userdata.tmpl"
UserdataLiteral == "#cloud-config"
UserdataVals == {None, UserdataFile, UserdataLiteral}

\* os.path.isfile(path)
IsFile(path) == path = UserdataFile

\* fp_.read() of the userdata file
ReadFile(path) == CASE path = UserdataFile -> "echo {{ greeting }}"

\* cloud.userdata_template(__opts__, vm_, text)
Render(text) == CASE text = "echo {{ greeting }}" -> "echo hello"

\* base64.b64encode(salt.utils.stringutils.to_bytes(x))
B64(x) ==
    CASE x = UserdataFile           -> "L3Nydi9zY3JpcHRzL3VzZXJkYXRhLnRtcGw="
      [] x = UserdataLiteral        -> "I2Nsb3VkLWNvbmZpZw=="
      [] x = "echo {{ greeting }}"  -> "ZWNobyB7eyBncmVldGluZyB9fQ=="
      [] x = "echo hello"           -> "ZWNobyBoZWxsbw=="

\* dict.update: a, with every key of b set to b's value
Update_keep(a, b) ==
    [k \in (DOMAIN a) \cup (DOMAIN b) |-> IF k \in DOMAIN a THEN a[k] ELSE b[k]]

Update(a, b) ==
    [k \in (DOMAIN a) \cup (DOMAIN b) |-> IF k \in DOMAIN b THEN b[k] ELSE a[k]]

\* What cloud.bootstrap returns: a dict, which may carry a key the instance
\* record carries too.
BootResults ==
    {[deployed |-> True], [deployed |-> True, status |-> "bootstrapped"]}

\* The dict show_instance returns for a record of NodeData.
AsDict(data) == [k \in {f \in DOMAIN data : data[f] # Absent} |-> data[k]]

NoResult == [boot |-> EmptyMap, snap |-> EmptyMap, ret |-> EmptyMap]

NothingPolled == [n |-> 0, bad |-> 0, last |-> Absent, ip |-> Absent, met |-> {}]

PayloadKeys ==
    {"label", "OSID", "VPSPLANID", "DCID", "hostname", "enable_private_network",
     "SCRIPTID", "ISOID", "ipxe_chain_url", "userdata", "FIREWALLGROUPID",
     "SSHKEYID"}

\* kwargs before line 697
NoPayload == [k \in PayloadKeys |-> Absent]

-----------------------------------------------------------------------------
(* Instances of the account and the responses to a destroy request *)

Labels == {"host1", "host2"}
\* the names destroy() may be called with: a label, or a name no instance has
Names == Labels \cup {"ghost"}
SubIds == {"576965", "576966"}

\* What server/list returns: instances with distinct SUBIDs, in the order
\* of the response; two instances may carry the same label.
\* the SUBID the provider gives the instance a submission creates
NewSubId == "576967"

\* One value of the server/list response: the instance under the key subid.
Server(subid, label) ==
    [SUBID       |-> subid,
     label       |-> label,
     os          |-> CASE subid = "576965" -> "CentOS 8 x64"
                       [] subid = "576966" -> "Custom Installed"
                       [] OTHER            -> "Debian 10 x64",
     VPSPLANID   |-> CASE subid = "576965" -> "201"
                       [] subid = "576966" -> "203"
                       [] OTHER            -> "201",
     status      |-> IF subid = NewSubId THEN "pending" ELSE "active",
     internal_ip |-> IF subid = "576966" THEN "10.99.0.10" ELSE "",
     main_ip     |-> CASE subid = "576965" -> "192.0.2.143"
                       [] subid = "576966" -> "198.51.100.226"
                       [] OTHER            -> "0.0.0.0"]

NodeLists ==
    {l \in SeqsUpTo({Server(s, n) : s \in SubIds, n \in Labels},
                    Cardinality(SubIds)) :
        \A a, b \in 1..Len(l) : a # b => l[a].SUBID # l[b].SUBID}

\* show_instance's {} for a name that is not listed
NoNode == [SUBID |-> Absent, label |-> Absent]

ErrorBody == "{\"error\": \"Invalid server. Check SUBID value.\"}"
HttpError == "HTTP 412: Precondition Failed"

\* no request made yet
NoHttp == [body |-> Absent, text |-> Absent, error |-> Absent]

\* What _query(..., decode=False) returns, the result of http.query: after a
\* 2xx answer the body, also as text; after any other answer or a transport
\* failure an error, with the body if there was one.
HttpResults ==
    {[body |-> b, text |-> b, error |-> Absent] : b \in {"", ErrorBody}}
    \cup {[body |-> b, text |-> Absent, error |-> HttpError] :
             b \in {Absent, "", ErrorBody}}

\* One request of _query: its path, and the node its parameters or data
\* name (Absent: none).
Request(path, node) == [path |-> path, node |-> node]

\* What sshkey/list returns holds some of these keys, under their SSHKEYID.
KeyIds == {"k1", "k2"}
KeyEntry(k) ==
    [SSHKEYID |-> k,
     name     |-> IF k = "k1" THEN "ed25519 SSH Key" ELSE "rsa SSH Key"]
NoKey == [SSHKEYID |-> Absent, name |-> Absent]

\* The kwargs show_keypair may get: None, a dict without keyname (empty or
\* not), a dict with a keyname.
KeypairArgs ==
    {[t |-> "NoneType", n |-> 0, keyname |-> Absent],
     [t |-> "dict", n |-> 0, keyname |-> Absent],
     [t |-> "dict", n |-> 1, keyname |-> Absent]}
    \cup {[t |-> "dict", n |-> 1, keyname |-> k] : k \in KeyIds \cup {"kX"}}

\* The call argument of show_instance.
CallKinds == {"action", "function", None}

SystemExit == "raise:SaltCloudSystemExit"
KeynameMsg == "A keyname is required."

\* No call of a node or key function is running.
IdleCall ==
    [pc |-> "idle", fn |-> None, name |-> None, SUBID |-> None,
     result |-> NoHttp, ret |-> None, kind |-> None,
     kwargs |-> [t |-> "NoneType", n |-> 0, keyname |-> Absent], keys |-> {},
     sent |-> <<>>, logged |-> None, entry |-> NoNode, cached |-> <<>>,
     listing |-> EmptyMap]

-----------------------------------------------------------------------------
(* State after construction *)

DefaultCfg ==
    [startup_script     |-> None,
     isoid              |-> None,
     ipxe_chain_url     |-> False,
     firewall_group_id  |-> None,
     ssh_key_ids        |-> None,
     private_networking |-> False,
     userdata           |-> None,
     ssh_username       |-> False,
     password           |-> False]

NothingSeen ==
    [scripts |-> {}, acct_isos |-> {}, public_isos |-> {},
     firewall_groups |-> {}, keys |-> {}]

InitLocals ==
    /\ DETAILS = EmptyMap
    /\ fld = [i \in Inv |-> 1]
    /\ step = [i \in Inv |-> 1]
    /\ fetched = [i \in Inv |-> [c \in Categories |-> <<>>]]
    /\ cfg = [i \in Inv |-> DefaultCfg]
    /\ which_key = [i \in Inv |-> PyNone]
    /\ ids = [i \in Inv |-> [image |-> False, size |-> False, location |-> False]]
    /\ seen = [i \in Inv |-> NothingSeen]
    /\ trace = [i \in Inv |-> <<>>]
    /\ probed = [i \in Inv |-> {}]
    /\ done = [i \in Inv |-> <<>>]
    /\ vm = [i \in Inv |->
               [ssh_host |-> None, ssh_username |-> Absent, password |-> None]]
    /\ clock = [i \in Inv |-> 0]
    /\ resp = [i \in Inv |-> NoResponse]
    /\ errlog = [i \in Inv |-> None]
    /\ ret = [i \in Inv |-> None]
    /\ kwargs = [i \in Inv |-> NoPayload]
    /\ polled = [i \in Inv |-> NothingPolled]
    /\ result = [i \in Inv |-> NoResult]

\* No instance is looked at and no destroy() is running.
InitNodes ==
    /\ nodes = <<>>
    /\ call = IdleCall

\* One create() invocation, from its first statement, with an empty cache.
Init ==
    /\ catalog = PlainCatalog
    /\ pc = [i \in Inv |-> IF i = 1 THEN "read_config" ELSE "off"]
    /\ InitLocals
    /\ InitNodes

-----------------------------------------------------------------------------
(* Bookkeeping shared by the actions *)

OptionNames ==
    {"startup_script", "isoid", "ipxe_chain_url", "firewall_group_id",
     "ssh_key_ids", "private_networking", "userdata", "ssh_username"}

\* The values config.get_cloud_config_value may return for an optional
\* setting: its default, or, while the profile has given fewer than
\* MaxOptions settings, any value of the setting.
Setting(i, name, vals) ==
    IF Cardinality({n \in OptionNames : cfg[i][n] # DefaultCfg[n]}) < MaxOptions
    THEN vals
    ELSE {DefaultCfg[name]}

\* The history keeps a run of consecutive instance lookups as one entry.
Log(t, e) ==
    IF e = "server/list" /\ t # <<>> /\ Last(t) = e THEN t ELSE Append(t, e)

RECURSIVE LogAll(_, _)
LogAll(t, es) == IF es = <<>> THEN t ELSE LogAll(Log(t, Head(es)), Tail(es))

\* create() returns r (or raises, r = "raise:..."), having logged the error m
\* (None: nothing logged).
Return(i, r, m) ==
    /\ pc' = [pc EXCEPT ![i] = "done"]
    /\ ret' = [ret EXCEPT ![i] = r]
    /\ errlog' = [errlog EXCEPT ![i] = m]

Goto(i, l) ==
    /\ pc' = [pc EXCEPT ![i] = l]
    /\ UNCHANGED <<ret, errlog>>

\* The log.error messages of create(), by their first words.
ScriptMsg == "Your Vultr account does not have a startup script with ID"
IsoMsg == "Your Vultr account does not have an ISO image with ID"
IpxeMsg == "iPXE Chain URL is malformed"
FirewallMsg == "Your Vultr account does not have a firewall group with ID"
KeyMsg == "Your Vultr account does not have a key with ID"
SubmitMsg == "Error creating"
LookupMsg(f) ==
    CASE f = "image"    -> "Vultr does not have an image with id or name"
      [] f = "size"     -> "Vultr does not have a size with id or name"
      [] f = "location" -> "Vultr does not have a location with id or name"

-----------------------------------------------------------------------------
(* create(): validation of the optional references, lines 583-669 *)

\* lines 580-585: the first setting create() reads is enable_private_network
ReadConfig(i) ==
    /\ UNCHANGED <<kwargs, polled, result, nodes, call>>
    /\ pc[i] = "read_config"
    /\ \E v \in Setting(i, "private_networking", PrivVals) :
          cfg' = [cfg EXCEPT ![i].private_networking = v]
    /\ Goto(i, "check_script")
    /\ UNCHANGED <<which_key, catalog, DETAILS, fld, step, fetched, ids, seen, trace,
                   probed, done, vm, clock, resp>>

\* line 607: not (startup_script and str(startup_script) not in avail_scripts())
ScriptOk(v, listing) == ~(Truthy(v) /\ v \notin listing)

ValidateScript(i) ==
    /\ UNCHANGED <<kwargs, polled, result, nodes, call>>
    /\ pc[i] = "check_script"
    /\ \E v \in Setting(i, "startup_script", ScriptVals), listing \in ScriptListings :
          /\ cfg' = [cfg EXCEPT ![i].startup_script = v]
          /\ IF Truthy(v)
             THEN /\ trace' = [trace EXCEPT ![i] = Log(@, "startupscript/list")]
                  /\ seen' = [seen EXCEPT ![i].scripts = listing]
             ELSE UNCHANGED <<trace, seen>>
          /\ IF ScriptOk(v, listing) THEN Goto(i, "check_iso")
             ELSE Return(i, False, ScriptMsg)
    /\ UNCHANGED <<which_key, catalog, DETAILS, fld, step, fetched, ids, probed, done, vm,
                   clock, resp>>

\* Variant: the ID must be in both listings.
IsoOk_both(v, acct, public) == ~(Truthy(v) /\ (v \notin acct \/ v \notin public))

\* lines 614-618: not (isoid and str(isoid) not in avail_acct_isos()
\*                           and str(isoid) not in avail_public_isos())
IsoOk(v, acct, public) == ~(Truthy(v) /\ v \notin acct /\ v \notin public)

\* Variant: both ISO listings are always queried.
IsoCalls_both(v, acct) ==
    IF ~Truthy(v) THEN <<>> ELSE <<"iso/list", "iso/list_public">>

\* The listing calls the short-circuit condition of lines 614-618 makes.
IsoCalls(v, acct) ==
    IF ~Truthy(v) THEN <<>>
    ELSE IF v \notin acct THEN <<"iso/list", "iso/list_public">>
    ELSE <<"iso/list">>

ValidateIso(i) ==
    /\ UNCHANGED <<kwargs, polled, result, nodes, call>>
    /\ pc[i] = "check_iso"
    /\ \E v \in Setting(i, "isoid", IsoVals), acct \in AcctIsoListings,
          public \in PublicIsoListings :
          /\ cfg' = [cfg EXCEPT ![i].isoid = v]
          /\ trace' = [trace EXCEPT ![i] = LogAll(@, IsoCalls(v, acct))]
          /\ seen' = [seen EXCEPT
                 ![i].acct_isos = IF Truthy(v) THEN acct ELSE @,
                 ![i].public_isos = IF Truthy(v) /\ v \notin acct THEN public ELSE @]
          /\ IF IsoOk(v, acct, public) THEN Goto(i, "check_ipxe")
             ELSE Return(i, False, IsoMsg)
    /\ UNCHANGED <<which_key, catalog, DETAILS, fld, step, fetched, ids, probed, done, vm,
                   clock, resp>>

\* line 629: not (ipxe_chain_url and not validators.url(str(ipxe_chain_url)))
IpxeOk(v) == ~(Truthy(v) /\ v \notin ValidUrls)

ValidateIpxe(i) ==
    /\ UNCHANGED <<kwargs, polled, result, nodes, call>>
    /\ pc[i] = "check_ipxe"
    /\ \E v \in Setting(i, "ipxe_chain_url", IpxeVals) :
          /\ cfg' = [cfg EXCEPT ![i].ipxe_chain_url = v]
          /\ IF IpxeOk(v) THEN Goto(i, "check_firewall") ELSE Return(i, False, IpxeMsg)
    /\ UNCHANGED <<which_key, catalog, DETAILS, fld, step, fetched, ids, seen, trace, probed,
                   done, vm, clock, resp>>

\* line 646
FirewallOk(v, listing) == ~(Truthy(v) /\ v \notin listing)

ValidateFirewall(i) ==
    /\ UNCHANGED <<kwargs, polled, result, nodes, call>>
    /\ pc[i] = "check_firewall"
    /\ \E v \in Setting(i, "firewall_group_id", FirewallVals),
          listing \in FirewallListings :
          /\ cfg' = [cfg EXCEPT ![i].firewall_group_id = v]
          /\ IF Truthy(v)
             THEN /\ trace' = [trace EXCEPT ![i] = Log(@, "firewall/group_list")]
                  /\ seen' = [seen EXCEPT ![i].firewall_groups = listing]
             ELSE UNCHANGED <<trace, seen>>
          /\ IF FirewallOk(v, listing) THEN Goto(i, "check_keys")
             ELSE Return(i, False, FirewallMsg)
    /\ UNCHANGED <<which_key, catalog, DETAILS, fld, step, fetched, ids, probed, done, vm,
                   clock, resp>>

\* Variant: only the first segment is checked.
KeysOk_first(v, listing) ==
    v = None \/ ~(Truthy(Split(v)[1]) /\ Split(v)[1] \notin listing)

\* lines 653-659: the loop returns False at the first segment that is
\* non-empty and not listed
KeysOk(v, listing) ==
    v = None \/ \A n \in 1..Len(Split(v)) :
                   ~(Truthy(Split(v)[n]) /\ Split(v)[n] \notin listing)

ValidateKeys(i) ==
    /\ UNCHANGED <<kwargs, polled, result, nodes, call>>
    /\ pc[i] = "check_keys"
    /\ \E v \in Setting(i, "ssh_key_ids", SshVals), listing \in KeyListings :
          /\ cfg' = [cfg EXCEPT ![i].ssh_key_ids = v]
          /\ IF v # None
             THEN /\ trace' = [trace EXCEPT ![i] = Log(@, "sshkey/list")]
                  /\ seen' = [seen EXCEPT ![i].keys = listing]
             ELSE UNCHANGED <<trace, seen>>
          /\ IF KeysOk(v, listing) THEN Goto(i, "check_private")
             ELSE Return(i, False, KeyMsg)
    /\ UNCHANGED <<which_key, catalog, DETAILS, fld, step, fetched, ids, probed, done, vm,
                   clock, resp>>

\* Variant: no type check.
PrivateNetworkingOk_lax(v) == TRUE

\* lines 661-665
PrivateNetworkingOk(v) == ~(v # None /\ ~IsBool(v))

\* Variant: every value but False gives "yes".
EnablePrivateNetwork_unlessFalse(v) == IF v = False THEN "no" ELSE "yes"

\* lines 666-669
EnablePrivateNetwork(v) == IF v = True THEN "yes" ELSE "no"

CheckPrivateNetworking(i) ==
    /\ UNCHANGED <<kwargs, polled, result, nodes, call>>
    /\ pc[i] = "check_private"
    /\ IF PrivateNetworkingOk(cfg[i].private_networking)
       THEN Goto(i, "fire_starting")
       ELSE Return(i, ConfigError, None)
    /\ UNCHANGED <<which_key, catalog, DETAILS, fld, step, fetched, cfg, ids, seen, trace,
                   probed, done, vm, clock, resp>>

\* lines 671-680
FireStarting(i) ==
    /\ UNCHANGED <<kwargs, polled, result, nodes, call>>
    /\ pc[i] = "fire_starting"
    /\ trace' = [trace EXCEPT ![i] = Log(@, "starting create")]
    /\ fld' = [fld EXCEPT ![i] = 1]
    /\ Goto(i, "lookup")
    /\ UNCHANGED <<which_key, catalog, DETAILS, step, fetched, cfg, ids, seen, probed, done,
                   vm, clock, resp>>

-----------------------------------------------------------------------------
(* create(): resolution of image, size and location, lines 682-695, through *)
(* _lookup_vultrid (555-566) and _cache_provider_details (183-205)          *)

LookupOrder == <<"image", "size", "location">>

\* the availkey create() passes for each required field
CategoryOf(f) ==
    CASE f = "image"    -> "avail_images"
      [] f = "size"     -> "avail_sizes"
      [] f = "location" -> "avail_locations"

\* Variant: every lookup refreshes.
NeedsRefresh_always(D) == TRUE

\* line 559: DETAILS == {}
NeedsRefresh(D) == DOMAIN D = {}

\* _lookup_vultrid is entered with vm_[field]; line 559 decides on a refresh.
Lookup(i) ==
    /\ UNCHANGED <<kwargs, polled, result, nodes, call>>
    /\ pc[i] = "lookup"
    /\ \E k \in ProfileKeys :
          which_key' = [which_key EXCEPT ![i] = k]
    /\ IF NeedsRefresh(DETAILS)
       THEN /\ Goto(i, "cache_reset")
            /\ step' = [step EXCEPT ![i] = 1]
       ELSE /\ Goto(i, "lookup_read")
            /\ step' = step
    /\ UNCHANGED <<catalog, DETAILS, fld, fetched, cfg, ids, seen, trace, probed,
                   done, vm, clock, resp>>

\* lines 188-190, one assignment at a time
CacheReset(i) ==
    /\ UNCHANGED <<kwargs, polled, result, nodes, call>>
    /\ pc[i] = "cache_reset"
    /\ DETAILS' = Put(DETAILS, ResetOrder[step[i]], EmptyMap)
    /\ IF step[i] = Len(ResetOrder)
       THEN /\ Goto(i, "cache_query")
            /\ step' = [step EXCEPT ![i] = 1]
       ELSE /\ Goto(i, "cache_reset")
            /\ step' = [step EXCEPT ![i] = @ + 1]
    /\ UNCHANGED <<which_key, catalog, fld, fetched, cfg, ids, seen, trace, probed, done, vm,
                   clock, resp>>

\* lines 191-193, one listing call at a time
CacheQuery(i) ==
    /\ UNCHANGED <<kwargs, polled, result, nodes, call>>
    /\ pc[i] = "cache_query"
    /\ LET c == QueryOrder[step[i]]
       IN  /\ trace' = [trace EXCEPT ![i] = Log(@, ListPath(c))]
           /\ fetched' = [fetched EXCEPT ![i][c] = catalog[c]]
    /\ IF step[i] = Len(QueryOrder)
       THEN /\ Goto(i, "cache_fill")
            /\ step' = [step EXCEPT ![i] = 1]
       ELSE /\ Goto(i, "cache_query")
            /\ step' = [step EXCEPT ![i] = @ + 1]
    /\ UNCHANGED <<which_key, catalog, DETAILS, fld, cfg, ids, seen, probed, done, vm, clock,
                   resp>>

\* One of the listing calls of lines 191-193 raises: nothing catches it in
\* _cache_provider_details, _lookup_vultrid or create(), and the categories
\* assigned at lines 188-190 stay as they are.
CacheQueryRaises(i) ==
    /\ UNCHANGED <<kwargs, polled, result, nodes, call>>
    /\ pc[i] = "cache_query"
    /\ trace' = [trace EXCEPT ![i] = Log(@, ListPath(QueryOrder[step[i]]))]
    /\ Return(i, QueryError, None)
    /\ UNCHANGED <<which_key, catalog, DETAILS, fld, step, fetched, cfg, ids, seen,
                   probed, done, vm, clock, resp>>

\* lines 195-205, one loop at a time; the loop writes into whatever mapping
\* DETAILS holds for the category when it runs
CacheFill(i) ==
    /\ UNCHANGED <<kwargs, polled, result, nodes, call>>
    /\ pc[i] = "cache_fill"
    /\ LET c == FillOrder[step[i]]
       IN  DETAILS' = Put(DETAILS, c, FillCategory(DETAILS[c], fetched[i][c]))
    /\ IF step[i] = Len(FillOrder)
       THEN /\ Goto(i, "lookup_read")
            /\ step' = [step EXCEPT ![i] = 1]
       ELSE /\ Goto(i, "cache_fill")
            /\ step' = [step EXCEPT ![i] = @ + 1]
    /\ UNCHANGED <<which_key, catalog, fld, fetched, cfg, ids, seen, trace, probed, done, vm,
                   clock, resp>>

\* lines 562-566, then create()'s "if not osid: return False" (683-695)
LookupRead(i) ==
    /\ UNCHANGED <<kwargs, polled, result, nodes, call>>
    /\ pc[i] = "lookup_read"
    /\ LET f == LookupOrder[fld[i]]
           r == LookupIn(DETAILS, CategoryOf(f), Str(which_key[i]))
       IN  IF ~Truthy(r)
           THEN /\ Return(i, False, LookupMsg(f))
                /\ UNCHANGED <<ids, fld, which_key>>
           ELSE /\ ids' = [ids EXCEPT ![i][f] = r]
                /\ IF fld[i] = Len(LookupOrder)
                   THEN /\ Goto(i, "fire_requesting")
                        /\ fld' = fld
                   ELSE /\ Goto(i, "lookup")
                        /\ fld' = [fld EXCEPT ![i] = @ + 1]
                /\ which_key' = [which_key EXCEPT ![i] = PyNone]
    /\ UNCHANGED <<catalog, DETAILS, step, fetched, cfg, seen, trace, probed, done,
                   vm, clock, resp>>

-----------------------------------------------------------------------------
(* create(): submission, lines 697-794 *)

\* lines 714-729: what kwargs["userdata"] holds after both if statements; the
\* second one runs whenever userdata is given and assigns over the first.
\* readable: the open and read of the file raised nothing.
UserdataPayload(userdata, readable) ==
    LET fromFile == IF userdata # None /\ IsFile(userdata) /\ readable
                    THEN Render(ReadFile(userdata))
                    ELSE Absent
    IN  IF userdata # None THEN B64(userdata) ELSE fromFile

\* Variant: the image and size IDs change places.
Payload_swapped(name, c, id, userdata, readable) ==
    [label                  |-> name,
     OSID                   |-> id.size,
     VPSPLANID              |-> id.image,
     DCID                   |-> id.location,
     hostname               |-> name,
     enable_private_network |-> EnablePrivateNetwork(c.private_networking),
     SCRIPTID               |-> Absent,
     ISOID                  |-> Absent,
     ipxe_chain_url         |-> Absent,
     userdata               |-> UserdataPayload(userdata, readable),
     FIREWALLGROUPID        |-> Absent,
     SSHKEYID               |-> Absent]

\* Variant: the optional keys are set whether or not the setting is given.
Payload_everyKey(name, c, id, userdata, readable) ==
    [label                  |-> name,
     OSID                   |-> id.image,
     VPSPLANID              |-> id.size,
     DCID                   |-> id.location,
     hostname               |-> name,
     enable_private_network |-> EnablePrivateNetwork(c.private_networking),
     SCRIPTID               |-> c.startup_script,
     ISOID                  |-> c.isoid,
     ipxe_chain_url         |-> c.ipxe_chain_url,
     userdata               |-> UserdataPayload(userdata, readable),
     FIREWALLGROUPID        |-> c.firewall_group_id,
     SSHKEYID               |-> c.ssh_key_ids]

\* lines 697-735: kwargs for the request name, the settings c and the
\* resolved IDs id
Payload(name, c, id, userdata, readable) ==
    [label                  |-> name,
     OSID                   |-> id.image,
     VPSPLANID              |-> id.size,
     DCID                   |-> id.location,
     hostname               |-> name,
     enable_private_network |-> EnablePrivateNetwork(c.private_networking),
     SCRIPTID               |-> IF Truthy(c.startup_script)
                                THEN c.startup_script ELSE Absent,
     ISOID                  |-> IF Truthy(c.isoid) THEN c.isoid ELSE Absent,
     ipxe_chain_url         |-> IF Truthy(c.ipxe_chain_url)
                                THEN c.ipxe_chain_url ELSE Absent,
     userdata               |-> UserdataPayload(userdata, readable),
     FIREWALLGROUPID        |-> IF Truthy(c.firewall_group_id)
                                THEN c.firewall_group_id ELSE Absent,
     SSHKEYID               |-> IF Truthy(c.ssh_key_ids)
                                THEN c.ssh_key_ids ELSE Absent]

\* lines 697-750: the payload is assembled and "requesting instance" is fired
FireRequesting(i) ==
    /\ UNCHANGED <<polled, result, nodes, call>>
    /\ pc[i] = "fire_requesting"
    /\ \E userdata \in Setting(i, "userdata", UserdataVals) :
       \E readable \in (IF IsFile(userdata) THEN BOOLEAN ELSE {TRUE}) :
          /\ cfg' = [cfg EXCEPT ![i].userdata = userdata]
          /\ kwargs' = [kwargs EXCEPT ![i] =
                 Payload(NameOf(i), cfg[i], ids[i], userdata, readable)]
    /\ trace' = [trace EXCEPT ![i] = Log(@, "requesting instance")]
    /\ Goto(i, "submit")
    /\ UNCHANGED <<which_key, catalog, DETAILS, fld, step, fetched, ids, seen, probed,
                   done, vm, clock, resp>>

\* Variant: the comparison is strict.
SubmissionFailed_gt(r) ==
    \/ r.raised
    \/ (IF r.has_status THEN r.status ELSE DefaultStatus) > FailStatus

\* line 756: int(data.get("status", "200")) >= 300, or the except of line 776
SubmissionFailed(r) ==
    \/ r.raised
    \/ (IF r.has_status THEN r.status ELSE DefaultStatus) >= FailStatus

\* Variant: the instances are listed before the submission.
SubmitCalls_lookupFirst(failed) ==
    IF failed
    THEN <<"server/list", "server/create", "instance request failed">>
    ELSE <<"server/list", "server/create">>

\* Variant: a failed submission is followed by a destroy call.
SubmitCalls_rollback(failed) ==
    IF failed
    THEN <<"server/create", "server/destroy", "instance request failed">>
    ELSE <<"server/create">>

\* lines 752-794: the calls create() makes to submit, given whether the
\* submission failed
SubmitCalls(failed) ==
    IF failed
    THEN <<"server/create", "instance request failed">>
    ELSE <<"server/create">>

\* lines 752-794: one server/create call; on failure the "instance request
\* failed" event and return False
Submit(i) ==
    /\ UNCHANGED <<kwargs, polled, result, nodes, call>>
    /\ pc[i] = "submit"
    /\ \E r \in Responses :
          /\ resp' = [resp EXCEPT ![i] = r]
          /\ IF SubmissionFailed(r)
             THEN /\ trace' = [trace EXCEPT ![i] = LogAll(@, SubmitCalls(TRUE))]
                  /\ Return(i, False, SubmitMsg)
             ELSE /\ trace' = [trace EXCEPT ![i] = LogAll(@, SubmitCalls(FALSE))]
                  /\ Goto(i, "wait_for_hostname")
    /\ clock' = [clock EXCEPT ![i] = 0]
    /\ UNCHANGED <<which_key, catalog, DETAILS, fld, step, fetched, cfg, ids, seen, probed,
                   done, vm>>

-----------------------------------------------------------------------------
(* create(): the readiness stages, lines 796-870 *)

HostnameSleep == 3
PollSleep == 1

Stages == <<"wait_for_hostname", "wait_for_default_password",
            "wait_for_status", "wait_for_server_state">>
StageSet == {Stages[n] : n \in 1..Len(Stages)}

\* Variant: any address counts, also a missing one.
wait_for_hostname_anyIp(data) == Get(data, "main_ip", "0")

\* lines 796-806
wait_for_hostname(data) ==
    IF StartsWithZero(Get(data, "main_ip", "0")) THEN False ELSE data.main_ip

\* Variant: the sentinel 'not supported' counts as a password.
wait_for_default_password_noSentinel(data) ==
    LET default_password == Get(data, "default_password", "")
    IN  IF default_password = "" THEN False ELSE data.default_password

\* lines 808-818
wait_for_default_password(data) ==
    LET default_password == Get(data, "default_password", "")
    IN  IF default_password = "" \/ default_password = "not supported"
        THEN False
        ELSE data.default_password

\* lines 820-829: on success it returns data["default_password"]
wait_for_status(data) ==
    IF Get(data, "status", "") # "active" THEN False
    ELSE IF data.default_password = Absent THEN KeyError
    ELSE data.default_password

\* lines 831-840: on success it returns data["default_password"]
wait_for_server_state(data) ==
    IF Get(data, "server_state", "") # "ok" THEN False
    ELSE IF data.default_password = Absent THEN KeyError
    ELSE data.default_password

ProbeOf(s, data) ==
    CASE s = "wait_for_hostname"         -> wait_for_hostname(data)
      [] s = "wait_for_default_password" -> wait_for_default_password(data)
      [] s = "wait_for_status"           -> wait_for_status(data)
      [] s = "wait_for_server_state"     -> wait_for_server_state(data)

\* the fields of the record each probe reads
ReadBy(s) ==
    CASE s = "wait_for_hostname"         -> {"main_ip"}
      [] s = "wait_for_default_password" -> {"default_password"}
      [] s = "wait_for_status"           -> {"status", "default_password"}
      [] s = "wait_for_server_state"     -> {"server_state", "default_password"}

\* The records the probe of stage s may get: every value of the fields it
\* reads; the fields it does not read are those of a ready instance.
ReadyNode ==
    [main_ip |-> "45.76.1.2", default_password |-> "xYz123", status |-> "active",
     server_state |-> "ok"]

DataFor(s) ==
    {data \in NodeData :
        \/ data = NotListed
        \/ \A f \in (DOMAIN data) \ ReadBy(s) : data[f] = ReadyNode[f]}

\* the time.sleep of the probe's not-ready branch
SleepOf(s) == IF s = "wait_for_hostname" THEN HostnameSleep ELSE PollSleep

\* One turn of the poller, given the probe's result r and the time elapsed
\* once the probe has returned.  The value False is "not ready"; the poller
\* fails once the elapsed time exceeds the timeout.  What it does with an
\* exception of the probe is not stated: it propagates it (catches = FALSE)
\* or counts the attempt as not ready (catches = TRUE).
WaitForFun(r, elapsed, catches) ==
    IF r = KeyError /\ ~catches THEN "error"
    ELSE IF r \notin {False, KeyError} THEN "value"
    ELSE IF elapsed > WaitTimeout THEN "timeout"
    ELSE "retry"

\* Variant: the default-password stage is never run.
AfterStage_noPassword(s, password) ==
    CASE s = "wait_for_hostname"         -> "wait_for_status"
      [] s = "wait_for_default_password" -> "wait_for_status"
      [] s = "wait_for_status"           -> "wait_for_server_state"
      [] s = "wait_for_server_state"     -> "bootstrap"

\* lines 842-870: the order of the wait_for_fun calls; the default-password
\* stage runs only "if not password"
AfterStage(s, password) ==
    CASE s = "wait_for_hostname" ->
            IF ~Truthy(password) THEN "wait_for_default_password"
            ELSE "wait_for_status"
      [] s = "wait_for_default_password" -> "wait_for_status"
      [] s = "wait_for_status"           -> "wait_for_server_state"
      [] s = "wait_for_server_state"     -> "bootstrap"

\* Variant: a timeout is swallowed and create() goes on.
StageOutcome_swallow(s, kind, password) ==
    CASE kind \in {"value", "timeout"} -> AfterStage(s, password)
      [] kind = "retry" -> s
      [] OTHER          -> "done"

\* lines 842-870: create() uses the value wait_for_fun returns and handles no
\* exception of it, so a timeout or error ends create()
StageOutcome(s, kind, password) ==
    CASE kind = "value" -> AfterStage(s, password)
      [] kind = "retry" -> s
      [] OTHER          -> "done"

\* The condition on the stage's own field under which its probe does not
\* take the not-ready branch (lines 803, 813, 823-824, 834-835).
FieldReady(s, data) ==
    CASE s = "wait_for_hostname" -> ~StartsWithZero(Get(data, "main_ip", "0"))
      [] s = "wait_for_default_password" ->
            Get(data, "default_password", "") \notin {"", "not supported"}
      [] s = "wait_for_status" -> Get(data, "status", "") = "active"
      [] s = "wait_for_server_state" -> Get(data, "server_state", "") = "ok"

\* History: the probe of stage s has run once more, on data.
Polled(h, s, data) ==
    [n   |-> IF s = "wait_for_default_password" THEN h.n + 1 ELSE h.n,
     bad |-> IF s = "wait_for_default_password" /\ ~FieldReady(s, data)
             THEN h.bad + 1 ELSE h.bad,
     last |-> IF s = "wait_for_default_password" THEN data.default_password
              ELSE h.last,
     ip |-> IF s = "wait_for_hostname" THEN data.main_ip ELSE h.ip,
     met |-> IF FieldReady(s, data) THEN h.met \cup {s} ELSE h.met]

\* One probe invocation of the current stage and what create() does next.
WaitStep(i) ==
    /\ UNCHANGED <<kwargs, result, nodes, call>>
    /\ pc[i] \in StageSet
    /\ \E data \in DataFor(pc[i]) :
       \E catches \in (IF ProbeOf(pc[i], data) = KeyError THEN BOOLEAN ELSE {FALSE}) :
       \E password \in (IF pc[i] = "wait_for_hostname" THEN PasswordVals
                        ELSE {cfg[i].password}) :
       \E username \in (IF pc[i] = "wait_for_hostname"
                        THEN Setting(i, "ssh_username", UsernameVals)
                        ELSE {cfg[i].ssh_username}) :
          LET s == pc[i]
              r == ProbeOf(s, data)
              slept == IF r = False THEN SleepOf(s) ELSE PollSleep
              kind == WaitForFun(r, clock[i] + slept, catches)
              pw == IF s = "wait_for_hostname" THEN password ELSE cfg[i].password
              nxt == StageOutcome(s, kind, pw)
          IN  /\ trace' = [trace EXCEPT ![i] = Log(@, "server/list")]
              /\ probed' = [probed EXCEPT ![i] = @ \cup {s}]
              /\ polled' = [polled EXCEPT ![i] = Polled(@, s, data)]
              /\ done' = [done EXCEPT ![i] =
                     IF kind = "retry" THEN @
                     ELSE Append(@, [stage |-> s, how |-> kind])]
              /\ clock' = [clock EXCEPT ![i] =
                     IF kind = "retry" THEN @ + slept ELSE 0]
              /\ cfg' = [cfg EXCEPT
                     ![i].password = IF kind = "value" THEN pw ELSE @,
                     ![i].ssh_username = IF kind = "value" THEN username ELSE @]
              /\ vm' = [vm EXCEPT
                     ![i].ssh_host =
                        IF kind = "value" /\ s = "wait_for_hostname" THEN r ELSE @,
                     ![i].ssh_username =
                        IF kind = "value" /\ s = "wait_for_hostname" /\ Truthy(username)
                        THEN username ELSE @,
                     ![i].password =
                        IF kind = "value" /\ s = "wait_for_hostname" /\ Truthy(pw)
                        THEN pw
                        ELSE IF kind = "value" /\ s = "wait_for_default_password"
                        THEN r
                        ELSE @]
              /\ pc' = [pc EXCEPT ![i] = nxt]
              /\ ret' = [ret EXCEPT ![i] =
                     IF nxt # "done" THEN @
                     ELSE IF kind = "timeout" THEN TimeoutError ELSE KeyError]
              /\ errlog' = errlog
    /\ UNCHANGED <<which_key, catalog, DETAILS, fld, step, fetched, ids, seen, resp>>

\* lines 872-881
Bootstrap(i) ==
    /\ UNCHANGED <<kwargs, polled, nodes, call>>
    /\ pc[i] = "bootstrap"
    /\ \E b \in BootResults :
          result' = [result EXCEPT ![i].boot = b, ![i].ret = b]
    /\ trace' = [trace EXCEPT ![i] = Log(@, "cloud.bootstrap")]
    /\ Goto(i, "finish")
    /\ UNCHANGED <<which_key, catalog, DETAILS, fld, step, fetched, cfg, ids, seen, probed,
                   done, vm, clock, resp>>

\* lines 883-899: the final show_instance, the "created instance" event, return
Finish(i) ==
    /\ UNCHANGED <<kwargs, polled, nodes, call>>
    /\ pc[i] = "finish"
    /\ \E data \in FinalData :
          result' = [result EXCEPT ![i].snap = AsDict(data),
                                   ![i].ret = Update(@, AsDict(data))]
    /\ trace' = [trace EXCEPT ![i] = LogAll(@, <<"server/list", "created instance">>)]
    /\ Return(i, "ret", None)
    /\ UNCHANGED <<which_key, catalog, DETAILS, fld, step, fetched, cfg, ids, seen, probed,
                   done, vm, clock, resp>>

-----------------------------------------------------------------------------
(* create() when the event collaborator fails, lines 671-680, 739-750, 888-897 *)

\* cloud.fire_event raises at line 671; no statement of create() handles it
FireStartingRaises(i) ==
    /\ UNCHANGED <<kwargs, polled, result, nodes, call>>
    /\ pc[i] = "fire_starting"
    /\ trace' = [trace EXCEPT ![i] = Log(@, "starting create")]
    /\ Return(i, PublishError, None)
    /\ UNCHANGED <<which_key, catalog, DETAILS, fld, step, fetched, cfg, ids, seen,
                   probed, done, vm, clock, resp>>

\* cloud.fire_event raises at line 739, after the payload is assembled
FireRequestingRaises(i) ==
    /\ UNCHANGED <<polled, result, nodes, call>>
    /\ pc[i] = "fire_requesting"
    /\ \E userdata \in Setting(i, "userdata", UserdataVals) :
       \E readable \in (IF IsFile(userdata) THEN BOOLEAN ELSE {TRUE}) :
          /\ cfg' = [cfg EXCEPT ![i].userdata = userdata]
          /\ kwargs' = [kwargs EXCEPT ![i] =
                 Payload(NameOf(i), cfg[i], ids[i], userdata, readable)]
    /\ trace' = [trace EXCEPT ![i] = Log(@, "requesting instance")]
    /\ Return(i, PublishError, None)
    /\ UNCHANGED <<which_key, catalog, DETAILS, fld, step, fetched, ids, seen,
                   probed, done, vm, clock, resp>>

\* cloud.fire_event raises at line 888, after bootstrap and the final lookup
FinishRaises(i) ==
    /\ UNCHANGED <<kwargs, polled, nodes, call>>
    /\ pc[i] = "finish"
    /\ \E data \in FinalData :
          result' = [result EXCEPT ![i].snap = AsDict(data),
                                   ![i].ret = Update(@, AsDict(data))]
    /\ trace' = [trace EXCEPT ![i] = LogAll(@, <<"server/list", "created instance">>)]
    /\ Return(i, PublishError, None)
    /\ UNCHANGED <<which_key, catalog, DETAILS, fld, step, fetched, cfg, ids, seen,
                   probed, done, vm, clock, resp>>

-----------------------------------------------------------------------------
(* destroy(), lines 463-491, with show_instance (528-552) and            *)
(* list_nodes_full (419-444)                                              *)

\* lines 434-444: ret[label] = node, in the order of the response
\* lines 436-442: the copy of one instance, with the six derived fields
FullNode(n) ==
    Update(n, [id          |-> n.SUBID,
               image       |-> n.os,
               size        |-> n.VPSPLANID,
               state       |-> n.status,
               private_ips |-> n.internal_ip,
               public_ips  |-> n.main_ip])

RECURSIVE list_nodes_full(_, _)
list_nodes_full(d, listing) ==
    IF listing = <<>> THEN d
    ELSE list_nodes_full(Put(d, Head(listing).label, FullNode(Head(listing))),
                         Tail(listing))

BriefProps == {"id", "image", "size", "state", "private_ips", "public_ips"}

\* Variant: the whole record of the full listing is kept.
list_nodes_whole(listing) == list_nodes_full(EmptyMap, listing)

\* lines 409-416
list_nodes(listing) ==
    LET full == list_nodes_full(EmptyMap, listing)
    IN  [node \in DOMAIN full |-> [prop \in BriefProps |-> full[node][prop]]]

\* Variant: a name that is not listed gives the first listed instance.
show_instance_orFirst(name, listing) ==
    LET full == list_nodes_full(EmptyMap, listing)
    IN  IF name \in DOMAIN full THEN full[name]
        ELSE IF listing = <<>> THEN NoNode
        ELSE FullNode(Head(listing))

\* lines 546-552
show_instance(name, listing) ==
    LET full == list_nodes_full(EmptyMap, listing)
    IN  IF name \notin DOMAIN full THEN NoNode ELSE full[name]

\* Variant: the call argument is not looked at.
ShowInstanceCall_anyCall(name, kind, listing) ==
    LET node == show_instance(name, listing)
    IN  [ret    |-> IF node = NoNode THEN "{}" ELSE "node",
         sent   |-> <<Request("server/list", Absent)>>,
         entry  |-> node,
         cached |-> IF node = NoNode THEN <<>> ELSE <<node>>]

\* lines 541-552: what show_instance(name, call=kind) returns or raises, the
\* requests it makes and what it hands to cloud.cache_node
ShowInstanceCall(name, kind, listing) ==
    IF kind # "action"
    THEN [ret |-> SystemExit, sent |-> <<>>, entry |-> NoNode, cached |-> <<>>]
    ELSE LET node == show_instance(name, listing)
         IN  [ret    |-> IF node = NoNode THEN "{}" ELSE "node",
              sent   |-> <<Request("server/list", Absent)>>,
              entry  |-> node,
              cached |-> IF node = NoNode THEN <<>> ELSE <<node>>]

\* Variant: the keys are listed before kwargs is looked at.
show_keypair_listFirst(kw, keys) ==
    [ret    |-> IF kw.keyname = Absent THEN False
                ELSE IF kw.keyname \in keys THEN "key" ELSE KeyError,
     logged |-> IF kw.keyname = Absent THEN KeynameMsg ELSE None,
     sent   |-> <<Request("sshkey/list", Absent)>>,
     entry  |-> IF kw.keyname \in keys THEN KeyEntry(kw.keyname) ELSE NoKey]

\* lines 355-367, with list_keypairs (338) and avail_keys (295); keys are the
\* SSHKEYIDs of the listing
show_keypair(kw, keys) ==
    IF kw.keyname = Absent
    THEN [ret |-> False, logged |-> KeynameMsg, sent |-> <<>>, entry |-> NoKey]
    ELSE [ret    |-> IF kw.keyname \in keys THEN "key" ELSE KeyError,
          logged |-> None,
          sent   |-> <<Request("sshkey/list", Absent)>>,
          entry  |-> IF kw.keyname \in keys THEN KeyEntry(kw.keyname) ELSE NoKey]

\* line 508: the request of stop(name)
stop(name) == <<Request("server/halt", Absent)>>

\* line 525: the request of start(name)
start(name) == <<Request("server/start", Absent)>>

\* Variant: only the body is looked at.
DestroyReturn_bodyOnly(r) == IF r.body = "" THEN True ELSE "result"

\* lines 489-491: True, or the result itself
DestroyReturn(r) == IF r.body = "" /\ r.text = "" THEN True ELSE "result"

\* lines 477-478: the lookup of the node; node["SUBID"] of {} is a KeyError
DestroyShow ==
    /\ call.pc = "idle"
    /\ \E name \in Names :
          LET node == show_instance(name, nodes)
          IN  call' = IF node.SUBID = Absent
                      THEN [IdleCall EXCEPT !.pc = "done", !.name = name,
                                            !.fn = "destroy",
                                            !.sent = <<Request("server/list", Absent)>>,
                                            !.ret = KeyError]
                      ELSE [IdleCall EXCEPT !.pc = "query", !.name = name,
                                            !.fn = "destroy",
                                            !.sent = <<Request("server/list", Absent)>>,
                                            !.SUBID = node.SUBID]
    /\ UNCHANGED nodes
    /\ UNCHANGED createVars

\* lines 479-491: the server/destroy request and what destroy() returns; the
\* provider has removed the instance when it answers 2xx
DestroyQuery ==
    /\ call.pc = "query"
    /\ \E r \in HttpResults :
          /\ call' = [call EXCEPT !.pc = "done", !.result = r,
                                  !.sent = Append(@, Request("server/destroy",
                                                             call.SUBID)),
                                  !.ret = DestroyReturn(r)]
          /\ nodes' = IF r.error = Absent
                      THEN SelectSeq(nodes, LAMBDA n : n.SUBID # call.SUBID)
                      ELSE nodes
    /\ UNCHANGED createVars

\* destroy() has returned; the next call may start
DestroyDone ==
    /\ call.pc = "done"
    /\ call' = IdleCall
    /\ UNCHANGED nodes
    /\ UNCHANGED createVars

-----------------------------------------------------------------------------
(* list_nodes, show_keypair, stop, start and show_instance as calls *)

\* lines 409-416
ListNodes ==
    /\ call.pc = "idle"
    /\ call' = [IdleCall EXCEPT !.pc = "done", !.fn = "list_nodes",
                                !.sent = <<Request("server/list", Absent)>>,
                                !.ret = "ret",
                                !.listing = list_nodes(nodes)]
    /\ UNCHANGED nodes
    /\ UNCHANGED createVars

\* lines 355-367, on any kwargs and any key listing
ShowKeypair ==
    /\ call.pc = "idle"
    /\ \E kw \in KeypairArgs : \E keys \in SUBSET KeyIds :
          LET r == show_keypair(kw, keys)
          IN  call' = [IdleCall EXCEPT !.pc = "done", !.fn = "show_keypair",
                                      !.kwargs = kw, !.keys = keys,
                                      !.ret = r.ret, !.logged = r.logged,
                                      !.sent = r.sent, !.entry = r.entry]
    /\ UNCHANGED nodes
    /\ UNCHANGED createVars

\* line 508: stop returns what _query returns
Stop ==
    /\ call.pc = "idle"
    /\ \E name \in Names : \E r \in HttpResults :
          call' = [IdleCall EXCEPT !.pc = "done", !.fn = "stop", !.name = name,
                                  !.sent = stop(name), !.result = r,
                                  !.ret = "result"]
    /\ UNCHANGED nodes
    /\ UNCHANGED createVars

\* line 525: start returns what _query returns
Start ==
    /\ call.pc = "idle"
    /\ \E name \in Names : \E r \in HttpResults :
          call' = [IdleCall EXCEPT !.pc = "done", !.fn = "start", !.name = name,
                                  !.sent = start(name), !.result = r,
                                  !.ret = "result"]
    /\ UNCHANGED nodes
    /\ UNCHANGED createVars

\* lines 541-552, for any name and any call argument
ShowInstance ==
    /\ call.pc = "idle"
    /\ \E name \in Names : \E kind \in CallKinds :
          LET r == ShowInstanceCall(name, kind, nodes)
          IN  call' = [IdleCall EXCEPT !.pc = "done", !.fn = "show_instance",
                                      !.name = name, !.kind = kind,
                                      !.ret = r.ret, !.sent = r.sent,
                                      !.entry = r.entry, !.cached = r.cached]
    /\ UNCHANGED nodes
    /\ UNCHANGED createVars

\* the call has returned; the next call may start
CallReturned ==
    /\ call.pc = "done"
    /\ call' = IdleCall
    /\ UNCHANGED nodes
    /\ UNCHANGED createVars

-----------------------------------------------------------------------------
(* create(): the instance the probes and the final snapshot look at *)

\* s with e inserted after its first n elements
InsertAt(s, n, e) == SubSeq(s, 1, n) \o <<e>> \o SubSeq(s, n + 1, Len(s))

\* lines 752-755: the provider creates the instance labelled name; where
\* server/list shows it among the other instances is the provider's choice.
\* create() keeps nothing of the answer but its status.
CreateSubmitted ==
    /\ call.pc = "idle"
    /\ \A n \in 1..Len(nodes) : nodes[n].SUBID # NewSubId
    /\ \E name \in Labels : \E n \in 0..Len(nodes) :
          /\ nodes' = InsertAt(nodes, n, Server(NewSubId, name))
          /\ call' = [IdleCall EXCEPT !.pc = "probe", !.fn = "create",
                                      !.name = name, !.SUBID = NewSubId,
                                      !.sent = <<Request("server/create", name)>>]
    /\ UNCHANGED createVars

\* lines 800, 812, 824, 835: a probe's show_instance(vm_["name"], call="action")
CreateProbe ==
    /\ call.pc = "probe"
    /\ LET r == ShowInstanceCall(call.name, "action", nodes)
       IN  call' = [call EXCEPT !.pc = "snapshot", !.kind = "action",
                                !.sent = @ \o r.sent, !.entry = r.entry,
                                !.cached = r.cached]
    /\ UNCHANGED nodes
    /\ UNCHANGED createVars

\* line 883: the final show_instance(vm_["name"], call="action")
CreateSnapshot ==
    /\ call.pc = "snapshot"
    /\ LET r == ShowInstanceCall(call.name, "action", nodes)
       IN  call' = [call EXCEPT !.pc = "done", !.ret = "ret",
                                !.sent = @ \o r.sent, !.entry = r.entry,
                                !.cached = r.cached]
    /\ UNCHANGED nodes
    /\ UNCHANGED createVars

-----------------------------------------------------------------------------
(* Specifications *)

Resolve(i) ==
    \/ FireStarting(i)
    \/ Lookup(i)
    \/ CacheReset(i)
    \/ CacheQuery(i)
    \/ CacheFill(i)
    \/ LookupRead(i)

Create(i) ==
    \/ ReadConfig(i)
    \/ ValidateScript(i)
    \/ ValidateIso(i)
    \/ ValidateIpxe(i)
    \/ ValidateFirewall(i)
    \/ ValidateKeys(i)
    \/ CheckPrivateNetworking(i)
    \/ Resolve(i)
    \/ FireRequesting(i)
    \/ Submit(i)
    \/ WaitStep(i)
    \/ Bootstrap(i)
    \/ Finish(i)

Next == \E i \in Inv : Create(i)

Spec == Init /\ [][Next]_vars

\* create() with an event collaborator that may fail.
NextEvents ==
    \E i \in Inv :
        \/ Create(i)
        \/ FireStartingRaises(i)
        \/ FireRequestingRaises(i)
        \/ FinishRaises(i)
SpecEvents == Init /\ [][NextEvents]_vars

\* destroy() calls, one after the other, on any account.
InitDestroy ==
    /\ catalog = PlainCatalog
    /\ pc = [i \in Inv |-> "off"]
    /\ InitLocals
    /\ nodes \in NodeLists
    /\ call = IdleCall
NextDestroy == DestroyShow \/ DestroyQuery \/ DestroyDone
SpecDestroy == InitDestroy /\ [][NextDestroy]_vars

\* Calls of the node and key functions, one after the other, on any account.
NextNodes ==
    \/ ListNodes
    \/ ShowKeypair
    \/ Stop
    \/ Start
    \/ ShowInstance
    \/ CallReturned
SpecNodes == InitDestroy /\ [][NextNodes]_vars

\* create() from its submission on, on any account.
NextProbe ==
    \/ CreateSubmitted
    \/ CreateProbe
    \/ CreateSnapshot
    \/ CallReturned
SpecProbe == InitDestroy /\ [][NextProbe]_vars

\* Two invocations whose profiles give no optional setting, each about to fire
\* "starting create" (line 671), sharing the module global DETAILS.
InitResolve ==
    /\ pc = [i \in Inv |-> "fire_starting"]
    /\ InitLocals
    /\ InitNodes

\* The other invocations are not inside lines 671-695.
Quiet(i) ==
    \A j \in Inv \ {i} : pc[j] \in {"fire_starting", "fire_requesting", "done"}

\* Resolutions one after the other, against any catalog.
InitCache == catalog \in RichCatalogs /\ InitResolve
StartAlone(i) == Quiet(i) /\ FireStarting(i)
NextCache ==
    \E i \in Inv :
        \/ StartAlone(i)
        \/ Lookup(i)
        \/ CacheReset(i)
        \/ CacheQuery(i)
        \/ CacheFill(i)
        \/ LookupRead(i)
SpecCache == InitCache /\ [][NextCache]_vars

\* Resolutions one after the other, with listing calls that may fail.
NextRefresh ==
    \E i \in Inv :
        \/ StartAlone(i)
        \/ Lookup(i)
        \/ CacheReset(i)
        \/ CacheQuery(i)
        \/ CacheQueryRaises(i)
        \/ CacheFill(i)
        \/ LookupRead(i)
SpecRefresh == InitCache /\ [][NextRefresh]_vars

\* Resolutions of two invocations interleaved statement by statement.
InitConc == catalog = PlainCatalog /\ InitResolve
NextConc == \E i \in Inv : Resolve(i)
SpecConc == InitConc /\ [][NextConc]_vars

-----------------------------------------------------------------------------
(* Properties of create() *)

InTrace(i, e) == \E n \in 1..Len(trace[i]) : trace[i][n] = e

Count(t, e) == Cardinality({n \in 1..Len(t) : t[n] = e})

\* The reference a profile supplied is missing from the listing the validator
\* got for it.
BadScript(i) ==
    Truthy(cfg[i].startup_script) /\ cfg[i].startup_script \notin seen[i].scripts
BadIso(i) ==
    Truthy(cfg[i].isoid)
    /\ cfg[i].isoid \notin (seen[i].acct_isos \cup seen[i].public_isos)
BadIpxe(i) ==
    Truthy(cfg[i].ipxe_chain_url) /\ cfg[i].ipxe_chain_url \notin ValidUrls
BadFirewall(i) ==
    Truthy(cfg[i].firewall_group_id)
    /\ cfg[i].firewall_group_id \notin seen[i].firewall_groups
BadKey(i) ==
    cfg[i].ssh_key_ids # None
    /\ \E n \in 1..Len(Split(cfg[i].ssh_key_ids)) :
          /\ Split(cfg[i].ssh_key_ids)[n] # ""
          /\ Split(cfg[i].ssh_key_ids)[n] \notin seen[i].keys
BadPrivate(i) ==
    cfg[i].private_networking \notin {None, True, False}
Unresolved(i) ==
    \E f \in {"image", "size", "location"} : ids[i][f] = False

\* C1: the submission call (POST server/create) has been issued only in an
\* invocation in which image, size and location resolved, every supplied
\* startup-script, ISO, firewall-group and SSH-key ID was in its listing, the
\* iPXE URL was well-formed and the private-networking value was a boolean
\* (or not given).
C1_NoSubmissionOnFailedPrecondition ==
    \A i \in Inv :
        InTrace(i, "server/create") =>
            /\ ~Unresolved(i)
            /\ ~BadScript(i) /\ ~BadIso(i) /\ ~BadFirewall(i) /\ ~BadKey(i)
            /\ ~BadIpxe(i)
            /\ ~BadPrivate(i)

\* create() has ended on an unresolved size, after a listed firewall group
\* passed validation, without submitting.
C1_Witness ==
    \E i \in Inv :
        /\ pc[i] = "done" /\ ret[i] = False
        /\ errlog[i] = LookupMsg("size")
        /\ cfg[i].firewall_group_id = "f1"
        /\ ~InTrace(i, "server/create")

\* The stages create() has to complete, in order, given the password setting.
RequiredStages(password) ==
    IF Truthy(password)
    THEN <<"wait_for_hostname", "wait_for_status", "wait_for_server_state">>
    ELSE Stages

\* The stages whose wait_for_fun returned a value, in the order they did.
Completed(i) ==
    LET ok == {n \in 1..Len(done[i]) : done[i][n].how = "value"}
    IN  [n \in 1..Cardinality(ok) |-> done[i][n].stage]

IsPrefix(a, b) == Len(a) <= Len(b) /\ \A n \in 1..Len(a) : a[n] = b[n]

\* C2: probes run only after a successful submission; the completed stages
\* are, in order, a prefix of address, default password (left out exactly when
\* an explicit password was supplied), status, server state; the only stage
\* probed beyond the completed ones is the next one; bootstrap is invoked only
\* once all of them have completed.
C2_StagesInStrictSequence ==
    \A i \in Inv :
        LET req == RequiredStages(cfg[i].password)
            comp == Completed(i)
        IN  /\ probed[i] # {} => (resp[i].sent /\ ~resp[i].raised)
            /\ IsPrefix(comp, req)
            /\ \A s \in probed[i] :
                  \E n \in 1..Len(req) : req[n] = s /\ n <= Len(comp) + 1
            /\ InTrace(i, "cloud.bootstrap") => comp = req

\* Bootstrap has been invoked after all four stages completed, the
\* default-password stage included.
C2_Witness ==
    \E i \in Inv :
        /\ InTrace(i, "cloud.bootstrap")
        /\ Completed(i) = Stages
        /\ ~Truthy(cfg[i].password)

\* C3: once the submission response carried a status >= 300, or the call
\* raised, create() has emitted "instance request failed" right after its one
\* server/create call, has returned False, and has run no readiness probe and
\* no bootstrap.
C3_FailedSubmissionAborts ==
    \A i \in Inv :
        (resp[i].sent /\ (resp[i].raised
                          \/ (resp[i].has_status /\ resp[i].status >= 300))) =>
            /\ pc[i] = "done" /\ ret[i] = False
            /\ Len(trace[i]) >= 2
            /\ trace[i][Len(trace[i]) - 1] = "server/create"
            /\ Last(trace[i]) = "instance request failed"
            /\ Count(trace[i], "server/create") = 1
            /\ probed[i] = {}
            /\ ~InTrace(i, "cloud.bootstrap")

\* A submission was answered with status 300 and create() returned False.
C3_Witness ==
    \E i \in Inv :
        /\ resp[i].sent /\ resp[i].has_status /\ resp[i].status = 300
        /\ ret[i] = False
        /\ InTrace(i, "instance request failed")

\* C4: a stage whose wait timed out is the last thing create() did: create()
\* has ended with the timeout error, no later stage has been probed, and
\* neither bootstrap nor the "created instance" event has happened.
C4_StageTimeoutIsFatal ==
    \A i \in Inv :
        \A n \in 1..Len(done[i]) :
            done[i][n].how = "timeout" =>
                /\ n = Len(done[i])
                /\ pc[i] = "done" /\ ret[i] = TimeoutError
                /\ probed[i] = {done[i][m].stage : m \in 1..n}
                /\ ~InTrace(i, "cloud.bootstrap")
                /\ ~InTrace(i, "created instance")

\* The status stage timed out after the address and default-password stages
\* had completed.
C4_Witness ==
    \E i \in Inv :
        /\ Len(done[i]) = 3
        /\ done[i][3] = [stage |-> "wait_for_status", how |-> "timeout"]
        /\ ret[i] = TimeoutError

\* C9: whenever a supplied startup-script ID, firewall-group ID or one of the
\* comma-separated SSH-key IDs is missing from its listing, create() has
\* returned False without submitting, whatever the other settings are.
C9_AnyMissingReferenceRejects ==
    \A i \in Inv :
        (BadScript(i) \/ BadFirewall(i) \/ BadKey(i)) =>
            /\ pc[i] = "done" /\ ret[i] = False
            /\ errlog[i] \in {ScriptMsg, FirewallMsg, KeyMsg}
            /\ ~InTrace(i, "server/create")

\* Rejected for an unlisted second SSH key although the startup script given
\* with it is listed.
C9_Witness ==
    \E i \in Inv :
        /\ cfg[i].ssh_key_ids = "k1,kX"
        /\ cfg[i].startup_script = "s1" /\ ~BadScript(i)
        /\ ret[i] = False /\ errlog[i] = KeyMsg

\* C10: for a supplied ISO ID, create() is rejected by the ISO check exactly
\* when the ID is a key of neither the account ISO listing nor the public ISO
\* listing.
C10_IsoInEitherListing ==
    \A i \in Inv :
        Truthy(cfg[i].isoid) =>
            ((errlog[i] = IsoMsg) <=> BadIso(i))

\* An ISO ID that is missing from the account listing and present in the
\* public listing passed the ISO validation.
C10_Witness ==
    \E i \in Inv :
        /\ cfg[i].isoid = "i2"
        /\ seen[i].acct_isos = {"i1"} /\ seen[i].public_isos = {"i2"}
        /\ pc[i] = "check_ipxe"

\* The listing calls of the validator.
ValidatorPaths ==
    {"startupscript/list", "iso/list", "iso/list_public", "firewall/group_list",
     "sshkey/list"}

\* create() has ended on a required field that did not resolve.
EndedUnresolved(i) ==
    /\ pc[i] = "done"
    /\ errlog[i] \in {LookupMsg(f) : f \in {"image", "size", "location"}}

\* C11: the "starting create" notification is emitted only once image, size
\* and location have resolved, and an invocation that ended on an unresolved
\* required field has made no validator listing call and has emitted no
\* "starting create" notification.
C11_ResolutionPrecedesValidation ==
    \A i \in Inv :
        /\ InTrace(i, "starting create") => ~Unresolved(i)
        /\ EndedUnresolved(i) =>
              /\ \A p \in ValidatorPaths : ~InTrace(i, p)
              /\ ~InTrace(i, "starting create")

\* C12: no invocation ends with the error of a notification that could not be
\* published: create() goes on past a failed "starting create", "requesting
\* instance" or "created instance" publication.
C12_PublicationIsBestEffort ==
    \A i \in Inv : ret[i] # PublishError

\* The payload of invocation i has been assembled (line 697 has run).
Assembled(i) == kwargs[i].hostname # Absent

\* C13: the userdata of the payload is the base64 encoding of the rendered
\* contents of the file when the userdata setting names an existing file, and
\* the base64 encoding of the setting's value otherwise.
C13_UserdataFromFileIsItsContents ==
    \A i \in Inv :
        (Assembled(i) /\ cfg[i].userdata # None) =>
            kwargs[i].userdata =
                IF IsFile(cfg[i].userdata)
                THEN B64(Render(ReadFile(cfg[i].userdata)))
                ELSE B64(cfg[i].userdata)

\* The wait of stage s has returned a value.
StageCompleted(i, s) ==
    \E n \in 1..Len(done[i]) : done[i][n] = [stage |-> s, how |-> "value"]

\* C14: every probe of the default-password stage that met a missing or empty
\* default_password, or 'not supported', reported not-ready, and the stage
\* ended at the first probe that met another value: that value is the password,
\* and the probes made are the not-ready ones plus this one.
C14_FirstRealPasswordEndsStage ==
    \A i \in Inv :
        LET h == polled[i]
        IN  /\ h.bad <= h.n /\ h.n <= h.bad + 1
            /\ StageCompleted(i, "wait_for_default_password") <=> h.n = h.bad + 1
            /\ StageCompleted(i, "wait_for_default_password") =>
                  /\ vm[i].password = h.last
                  /\ h.last \notin {Absent, "", "not supported"}

\* 'not supported' twice, then 'xYz123': returned after three probes.
C14_Witness ==
    \E i \in Inv :
        /\ polled[i].n = 3 /\ polled[i].bad = 2
        /\ vm[i].password = "xYz123"
        /\ StageCompleted(i, "wait_for_default_password")

\* C15: the status stage has completed exactly when one of its probes met
\* status 'active', and the server-state stage exactly when one of its probes
\* met server_state 'ok', whatever the other fields of the record were.
C15_StageDependsOnItsFieldOnly ==
    \A i \in Inv :
        \A s \in {"wait_for_status", "wait_for_server_state"} :
            StageCompleted(i, s) <=> s \in polled[i].met

\* The provider IDs of the entries of a listing that carry the key k as ID or
\* as display name.
IdsFor(listing, k) ==
    {listing[n].id : n \in {m \in 1..Len(listing) :
                               listing[m].id = k \/ listing[m].name = k}}

\* C16: every ID create() resolves is the provider ID of a catalog entry that
\* carries the given key as its ID or display name, and the assembled payload
\* carries the resolved image, size and location IDs as OSID, VPSPLANID and
\* DCID and the request name as hostname and label.
C16_PayloadCarriesResolvedIds ==
    /\ [](\A i \in Inv :
            Assembled(i) =>
                /\ kwargs[i].OSID = ids[i].image
                /\ kwargs[i].VPSPLANID = ids[i].size
                /\ kwargs[i].DCID = ids[i].location
                /\ kwargs[i].OSID \in {catalog.avail_images[n].id :
                                          n \in 1..Len(catalog.avail_images)}
                /\ kwargs[i].VPSPLANID \in {catalog.avail_sizes[n].id :
                                          n \in 1..Len(catalog.avail_sizes)}
                /\ kwargs[i].DCID \in {catalog.avail_locations[n].id :
                                          n \in 1..Len(catalog.avail_locations)}
                /\ kwargs[i].hostname = NameOf(i)
                /\ kwargs[i].label = NameOf(i))
    /\ [][\A i \in Inv : \A f \in {"image", "size", "location"} :
            ids'[i][f] # ids[i][f] =>
                ids'[i][f] \in IdsFor(catalog[CategoryOf(f)], Str(which_key[i]))]_vars

\* The payload for host1 is ready to be submitted with the image, plan and
\* region IDs of the catalog.
C16_Witness ==
    /\ pc[1] = "submit"
    /\ kwargs[1].OSID = "1" /\ kwargs[1].VPSPLANID = "2" /\ kwargs[1].DCID = "1"
    /\ kwargs[1].hostname = "host1"

\* create() was ended by one of the checks that run before the
\* private-networking check.
EarlierRejected(i) ==
    errlog[i] \in {ScriptMsg, IsoMsg, IpxeMsg, FirewallMsg, KeyMsg}

\* the payload says 'yes' exactly for True
PrivateNetworkFlagOk(i) ==
    Assembled(i) =>
        kwargs[i].enable_private_network =
            IF cfg[i].private_networking = True THEN "yes" ELSE "no"

\* C17 as stated: a private-networking setting that is present and not a
\* boolean means no submission call and an invocation that ends with the
\* configuration error; for every other setting the payload's
\* enable_private_network is 'yes' exactly when the setting is True.
C17_NonBooleanIsConfigError ==
    \A i \in Inv :
        /\ BadPrivate(i) =>
              /\ ~InTrace(i, "server/create")
              /\ pc[i] = "done" => ret[i] = ConfigError
        /\ PrivateNetworkFlagOk(i)

\* C17, amended: a private-networking setting that is present and not a
\* boolean means no submission call and an invocation that ends with the
\* configuration error unless the script, ISO, iPXE, firewall-group or
\* SSH-key check, which run first, has rejected the request; for every other
\* setting the payload's enable_private_network is 'yes' exactly when the
\* setting is True.
C17_NonBooleanIsConfigErrorUnlessRejectedEarlier ==
    \A i \in Inv :
        /\ BadPrivate(i) =>
              /\ ~InTrace(i, "server/create")
              /\ ~Assembled(i)
              /\ pc[i] = "done" =>
                    IF EarlierRejected(i) THEN ret[i] = False
                    ELSE ret[i] = ConfigError
        /\ EarlierRejected(i) =>
              (BadScript(i) \/ BadIso(i) \/ BadIpxe(i) \/ BadFirewall(i) \/ BadKey(i))
        /\ PrivateNetworkFlagOk(i)

\* The setting 'yes' ended create() with the configuration error although a
\* listed startup script was given.
C17_Witness ==
    \E i \in Inv :
        /\ cfg[i].private_networking = "yes"
        /\ cfg[i].startup_script = "s1"
        /\ ret[i] = ConfigError

\* The provider endpoints that change the account.
MutatingPaths ==
    {"server/create", "server/destroy", "server/halt", "server/start",
     "server/reboot"}

\* C19: the only mutating call an invocation of create() has made is
\* server/create, at most once; in particular it has made no server/destroy
\* call, however it ended.
C19_NoRollback ==
    \A i \in Inv :
        /\ Count(trace[i], "server/create") <= 1
        /\ \A n \in 1..Len(trace[i]) :
              trace[i][n] \in MutatingPaths => trace[i][n] = "server/create"

\* The server-state stage timed out after the submission and the trace ends
\* with the instance lookups of the probes.
C19_Witness ==
    \E i \in Inv :
        /\ ret[i] = TimeoutError
        /\ StageCompleted(i, "wait_for_status")
        /\ Count(trace[i], "server/create") = 1
        /\ Last(trace[i]) = "server/list"

\* C20: an invocation that has emitted "created instance" has emitted it
\* once, after bootstrap and the instance lookup that follows it, as the last
\* thing before returning; and what a successful invocation returns is the
\* bootstrap result updated with that lookup's snapshot: every key of either,
\* with the snapshot's value where both have the key.
C20_ReturnsBootstrapMergedWithSnapshot ==
    \A i \in Inv :
        /\ InTrace(i, "created instance") =>
              /\ Count(trace[i], "created instance") = 1
              /\ Len(trace[i]) >= 3
              /\ trace[i][Len(trace[i]) - 2] = "cloud.bootstrap"
              /\ trace[i][Len(trace[i]) - 1] = "server/list"
              /\ Last(trace[i]) = "created instance"
              /\ pc[i] = "done" /\ ret[i] = "ret"
        /\ ret[i] = "ret" =>
              LET r == result[i]
              IN  /\ InTrace(i, "created instance")
                  /\ DOMAIN r.ret = (DOMAIN r.boot) \cup (DOMAIN r.snap)
                  /\ \A k \in DOMAIN r.snap : r.ret[k] = r.snap[k]
                  /\ \A k \in (DOMAIN r.boot) \ (DOMAIN r.snap) : r.ret[k] = r.boot[k]

\* create() returned a result in which the snapshot's status replaced the
\* status of the bootstrap result.
C20_Witness ==
    \E i \in Inv :
        /\ ret[i] = "ret"
        /\ "status" \in DOMAIN result[i].boot
        /\ "status" \in DOMAIN result[i].snap
        /\ result[i].ret["status"] = "active"
        /\ result[i].boot["status"] = "bootstrapped"

\* C24: the record handed to bootstrap carries as ssh_host the main_ip the
\* address stage last met, which is present and does not start with '0'; as
\* password the explicit password when one was supplied and otherwise the
\* default password the password stage last met; and ssh_username exactly
\* when one was supplied, with the supplied value.
C24_BootstrapRecord ==
    \A i \in Inv :
        InTrace(i, "cloud.bootstrap") =>
            /\ vm[i].ssh_host = polled[i].ip
            /\ polled[i].ip # Absent
            /\ ~StartsWithZero(vm[i].ssh_host)
            /\ vm[i].password =
                  IF Truthy(cfg[i].password) THEN cfg[i].password
                  ELSE polled[i].last
            /\ vm[i].password \notin {None, Absent, "", "not supported"}
            /\ vm[i].ssh_username =
                  IF Truthy(cfg[i].ssh_username) THEN cfg[i].ssh_username
                  ELSE Absent

\* Bootstrap got the assigned address, the explicit password and the user
\* name root.
C24_Witness ==
    \E i \in Inv :
        /\ InTrace(i, "cloud.bootstrap")
        /\ vm[i].ssh_host = "45.76.1.2"
        /\ vm[i].password = "CorrectHorseBatteryStaple"
        /\ vm[i].ssh_username = "root"

\* C25: an assembled payload carries SCRIPTID, ISOID, ipxe_chain_url,
\* FIREWALLGROUPID and SSHKEYID exactly for the settings that were supplied,
\* with the supplied value, and no such key for a setting that was not; and
\* every supplied reference was in its listing when it was validated.
C25_OptionalKeysExactlyWhenSupplied ==
    \A i \in Inv :
        Assembled(i) =>
            /\ kwargs[i].SCRIPTID =
                  IF Truthy(cfg[i].startup_script) THEN cfg[i].startup_script
                  ELSE Absent
            /\ kwargs[i].ISOID =
                  IF Truthy(cfg[i].isoid) THEN cfg[i].isoid ELSE Absent
            /\ kwargs[i].ipxe_chain_url =
                  IF Truthy(cfg[i].ipxe_chain_url) THEN cfg[i].ipxe_chain_url
                  ELSE Absent
            /\ kwargs[i].FIREWALLGROUPID =
                  IF Truthy(cfg[i].firewall_group_id) THEN cfg[i].firewall_group_id
                  ELSE Absent
            /\ kwargs[i].SSHKEYID =
                  IF Truthy(cfg[i].ssh_key_ids) THEN cfg[i].ssh_key_ids ELSE Absent
            /\ ~BadScript(i) /\ ~BadIso(i) /\ ~BadFirewall(i) /\ ~BadKey(i)

\* A payload with a listed firewall group and two listed SSH keys, and
\* without SCRIPTID and ISOID.
C25_Witness ==
    \E i \in Inv :
        /\ Assembled(i)
        /\ kwargs[i].FIREWALLGROUPID = "f1" /\ kwargs[i].SSHKEYID = "k1,k2"
        /\ kwargs[i].SCRIPTID = Absent /\ kwargs[i].ISOID = Absent

\* C26: a validator listing has been queried only for a setting that was
\* given: the script, account-ISO and firewall-group listings only for a
\* non-empty ID, the SSH-key listing only for a setting that is not None, and
\* the public-ISO listing only after the account-ISO listing, which did not
\* hold the ID; each listing at most once.
C26_ListingCallsOnlyForPresentFields ==
    \A i \in Inv :
        /\ InTrace(i, "startupscript/list") => Truthy(cfg[i].startup_script)
        /\ InTrace(i, "iso/list") => Truthy(cfg[i].isoid)
        /\ InTrace(i, "iso/list_public") =>
              /\ Truthy(cfg[i].isoid)
              /\ InTrace(i, "iso/list")
              /\ cfg[i].isoid \notin seen[i].acct_isos
        /\ InTrace(i, "firewall/group_list") => Truthy(cfg[i].firewall_group_id)
        /\ InTrace(i, "sshkey/list") => cfg[i].ssh_key_ids # None
        /\ \A p \in ValidatorPaths : Count(trace[i], p) <= 1

\* An ISO found in the account listing was validated without a public-ISO
\* call, and no script, firewall-group or SSH-key listing was queried.
C26_Witness ==
    \E i \in Inv :
        /\ cfg[i].isoid = "i1" /\ seen[i].acct_isos = {"i1"}
        /\ pc[i] = "fire_starting"
        /\ trace[i] = <<"iso/list">>

\* C32: wherever server/create stands in the history of an invocation, the
\* entry right before it is the "requesting instance" notification, with no
\* network call in between, and "starting create" stands before that one;
\* each of the two notifications has been emitted once.
C32_RequestingPrecedesSubmission ==
    \A i \in Inv :
        \A n \in 1..Len(trace[i]) :
            trace[i][n] = "server/create" =>
                /\ n >= 3
                /\ trace[i][n - 1] = "requesting instance"
                /\ \E m \in 1..(n - 2) : trace[i][m] = "starting create"
                /\ Count(trace[i], "requesting instance") = 1
                /\ Count(trace[i], "starting create") = 1

\* The submission has just been made, after an ISO check, the "starting
\* create" notification, the catalog refresh and "requesting instance".
C32_Witness ==
    \E i \in Inv :
        /\ pc[i] = "wait_for_hostname"
        /\ Len(trace[i]) >= 4
        /\ trace[i][1] = "iso/list"
        /\ trace[i][2] = "starting create"
        /\ trace[i][Len(trace[i]) - 1] = "requesting instance"
        /\ Last(trace[i]) = "server/create"

-----------------------------------------------------------------------------
(* Properties of destroy() *)

\* C18: a destroy() call that got an answer has returned True exactly when
\* the answer was a 2xx with an empty body, and has not returned True when the
\* answer's body carried an error field or the answer was an error.
C18_TrueExactlyForEmptyBody ==
    (call.pc = "done" /\ call.ret # KeyError) =>
        /\ call.ret = True <=> (call.result.body = "" /\ call.result.error = Absent)
        /\ (call.result.body = ErrorBody \/ call.result.error # Absent) =>
              call.ret # True

\* destroy() returned True for host1 on an empty 2xx answer, and the instance
\* is gone.
C18_Witness ==
    /\ call.pc = "done" /\ call.name = "host1"
    /\ call.ret = True
    /\ call.result.body = "" /\ call.result.error = Absent
    /\ \A n \in 1..Len(nodes) : nodes[n].SUBID # call.SUBID

\* The destroy() call has made a server/destroy request.
DestroyRequested(c) ==
    \E n \in 1..Len(c.sent) : c.sent[n].path = "server/destroy"

\* C31: a destroy() call whose name no listed instance carries ends at the
\* lookup of the node, with a KeyError: it makes no server/destroy request,
\* gets no answer and does not return True; and no call that has ended with
\* that KeyError has made a server/destroy request.
C31_UnlistedNameIsNeverDestroyed ==
    /\ [][(call.pc = "idle" /\ call'.pc # "idle" /\ call'.fn = "destroy"
            /\ \A n \in 1..Len(nodes) : nodes[n].label # call'.name) =>
              /\ call'.pc = "done"
              /\ call'.ret = KeyError
              /\ call'.ret # True
              /\ call'.result = NoHttp
              /\ ~DestroyRequested(call')
              /\ nodes' = nodes]_vars
    /\ []((call.fn = "destroy" /\ call.ret = KeyError) =>
            (call.pc = "done" /\ ~DestroyRequested(call)))

\* destroy('ghost') has ended with a KeyError on an account that lists two
\* instances, which are still listed.
C31_Witness ==
    /\ call.pc = "done" /\ call.fn = "destroy"
    /\ call.name = "ghost"
    /\ call.ret = KeyError
    /\ Len(nodes) = 2
    /\ call.sent = <<Request("server/list", Absent)>>

-----------------------------------------------------------------------------
(* Properties of the node and key functions *)

Returned(fn) == call.pc = "done" /\ call.fn = fn

\* The SUBIDs of the listed instances labelled name.
SubIdsOf(name) == {nodes[n].SUBID : n \in {m \in 1..Len(nodes) : nodes[m].label = name}}

\* C21: what list_nodes returns has one entry for each label of the full
\* listing and no other; each entry holds exactly the six fields id, image,
\* size, state, private_ips and public_ips, with the values the full listing
\* holds for that label, which are the SUBID, os, VPSPLANID, status,
\* internal_ip and main_ip of one listed instance with that label.
C21_BriefListingOfEveryNode ==
    Returned("list_nodes") =>
        LET full == list_nodes_full(EmptyMap, nodes)
        IN  /\ DOMAIN call.listing = {nodes[n].label : n \in 1..Len(nodes)}
            /\ DOMAIN call.listing = DOMAIN full
            /\ \A name \in DOMAIN call.listing :
                  /\ DOMAIN call.listing[name] = BriefProps
                  /\ \A prop \in BriefProps :
                        call.listing[name][prop] = full[name][prop]
                  /\ \E n \in 1..Len(nodes) :
                        /\ nodes[n].label = name
                        /\ call.listing[name].id = nodes[n].SUBID
                        /\ call.listing[name].image = nodes[n].os
                        /\ call.listing[name].size = nodes[n].VPSPLANID
                        /\ call.listing[name].state = nodes[n].status
                        /\ call.listing[name].private_ips = nodes[n].internal_ip
                        /\ call.listing[name].public_ips = nodes[n].main_ip

\* list_nodes returned the brief entries of host1 and host2.
C21_Witness ==
    /\ Returned("list_nodes")
    /\ DOMAIN call.listing = {"host1", "host2"}
    /\ call.listing["host2"].private_ips = "10.99.0.10"

\* C22: show_keypair called without a keyname has logged 'A keyname is
\* required.', returned False and made no request; called with a keyname the
\* key listing holds it has returned that key's entry.
C22_KeynameRequired ==
    Returned("show_keypair") =>
        /\ call.kwargs.keyname = Absent =>
              /\ call.logged = KeynameMsg
              /\ call.ret = False
              /\ call.sent = <<>>
        /\ (call.kwargs.keyname # Absent /\ call.kwargs.keyname \in call.keys) =>
              /\ call.ret = "key"
              /\ call.entry = KeyEntry(call.kwargs.keyname)
              /\ call.entry.SSHKEYID = call.kwargs.keyname

\* show_keypair got a dict without keyname on an account with two keys and
\* returned False.
C22_Witness ==
    /\ Returned("show_keypair")
    /\ call.kwargs.t = "dict" /\ call.kwargs.n = 1
    /\ call.kwargs.keyname = Absent
    /\ call.keys = KeyIds
    /\ call.ret = False

\* C23: the request of a stop or start call names the node the caller named,
\* by its name or by its SUBID.
C23_RequestNamesTheNode ==
    (Returned("stop") \/ Returned("start")) =>
        /\ Len(call.sent) = 1
        /\ call.sent[1].path = IF call.fn = "stop" THEN "server/halt"
                                ELSE "server/start"
        /\ call.sent[1].node \in {call.name} \cup SubIdsOf(call.name)

\* C27: show_instance called with a call argument other than 'action' has
\* raised and made no request; called as an action with a name that is not
\* listed it has returned the empty record and cached nothing; called as an
\* action with a listed name it has returned the record of a listed instance
\* with that label and handed that record to the node cache.
C27_ShowInstanceOnlyAsAction ==
    Returned("show_instance") =>
        /\ call.kind # "action" =>
              /\ call.ret = SystemExit
              /\ call.sent = <<>>
              /\ call.cached = <<>>
        /\ (call.kind = "action" /\ SubIdsOf(call.name) = {}) =>
              /\ call.ret = "{}"
              /\ call.entry = NoNode
              /\ call.cached = <<>>
        /\ (call.kind = "action" /\ SubIdsOf(call.name) # {}) =>
              /\ call.ret = "node"
              /\ call.entry.label = call.name
              /\ call.entry.SUBID \in SubIdsOf(call.name)
              /\ call.cached = <<call.entry>>

\* show_instance was called as a function for a listed node and raised.
C27_Witness ==
    /\ Returned("show_instance")
    /\ call.kind = "function"
    /\ SubIdsOf(call.name) # {}
    /\ call.ret = SystemExit

\* C30: the record a probe or the final snapshot of create() has read is the
\* record of the instance the submission created.
C30_ProbesInspectTheCreatedInstance ==
    (call.fn = "create" /\ call.pc \in {"snapshot", "done"}) =>
        call.entry.SUBID = call.SUBID

-----------------------------------------------------------------------------
(* Properties of the catalog cache *)

RefreshPcs == {"cache_reset", "cache_query", "cache_fill"}

\* A refresh has run to its end and none is running.
CacheReady ==
    /\ DOMAIN DETAILS = Categories
    /\ \A i \in Inv : pc[i] \notin RefreshPcs

\* Some entry listed after position n carries the key k as its ID or name.
LaterCarries(listing, n, k) ==
    \E m \in (n + 1)..Len(listing) : listing[m].id = k \/ listing[m].name = k

Resolving(i) == pc[i] = "lookup_read"
ResolveResult(i) ==
    LookupIn(DETAILS, CategoryOf(LookupOrder[fld[i]]), Str(which_key[i]))
ResolveListing(i) == catalog[CategoryOf(LookupOrder[fld[i]])]

\* C6: a key that is the provider ID of a listed entry resolves to that ID,
\* also when it is the display name of another entry and whatever the listing
\* order; a key that is no listed ID and no listed name resolves to False.
C6_IdMatchHasPrecedence ==
    \A i \in Inv :
        Resolving(i) =>
            LET k == Str(which_key[i])
                l == ResolveListing(i)
            IN  /\ (\E n \in 1..Len(l) : l[n].id = k) => ResolveResult(i) = k
                /\ (\A n \in 1..Len(l) : l[n].id # k /\ l[n].name # k)
                      => ResolveResult(i) = False

\* C28: a resolution entered with an integer key ends as the resolution of
\* the string of that integer ends on the same cache: with the same provider
\* ID, or as not found.
C28_IntegerKeyResolvesAsItsString ==
    [][\A i \in Inv :
          (Resolving(i) /\ which_key[i].t = "int" /\ pc'[i] # pc[i]) =>
              LET f == LookupOrder[fld[i]]
                  asString == LookupIn(DETAILS, CategoryOf(f),
                                       Str(PyStr(which_key[i].v)))
              IN  IF Truthy(asString)
                  THEN ids'[i][f] = asString /\ pc'[i] # "done"
                  ELSE pc'[i] = "done" /\ ret'[i] = False]_vars

\* The integer 1 is about to resolve to the provider ID "1".
C28_Witness ==
    \E i \in Inv :
        /\ Resolving(i)
        /\ which_key[i] = PyInt("1")
        /\ ResolveResult(i) = "1"

\* C29: when a refresh has ended in a failed listing call, the cache is
\* unpopulated, so that the next resolution refreshes again.
C29_FailedRefreshLeavesCacheUnpopulated ==
    \A i \in Inv :
        (pc[i] = "done" /\ ret[i] = QueryError) => NeedsRefresh(DETAILS)

CatalogCalls(p) == Count(trace[1], p) + Count(trace[2], p)

\* C7: each catalog endpoint is queried at most once, and exactly once by the
\* time the cache is ready; and once the cache is ready, no step changes
\* DETAILS or queries a catalog endpoint.
C7_RefreshedExactlyOnce ==
    /\ [](\A p \in CatalogPaths :
            /\ CatalogCalls(p) <= 1
            /\ CacheReady => CatalogCalls(p) = 1)
    /\ [][CacheReady =>
            /\ DETAILS' = DETAILS
            /\ \A p \in CatalogPaths : CatalogCalls(p)' = CatalogCalls(p)]_vars

\* Both invocations have resolved all three fields, the second without a
\* single catalog call.
C7_Witness ==
    /\ pc[1] = "fire_requesting" /\ pc[2] = "fire_requesting"
    /\ \E i \in Inv : \A p \in CatalogPaths : Count(trace[i], p) = 0

\* C8: whenever an invocation reads the cache to resolve a key, the category
\* it reads holds the complete index of the provider's listing.
C8_ReadsCompleteSnapshot ==
    \A i \in Inv :
        Resolving(i) =>
            LET c == CategoryOf(LookupOrder[fld[i]])
            IN  /\ c \in DOMAIN DETAILS
                /\ DETAILS[c] = FillCategory(EmptyMap, catalog[c])

====
